---- MODULE Spec2Model ----
(***************************************************************************)
(* Contrastive-divergence gradient estimator                               *)
(* (ccmpred/objfun/cd/__init__.py, class ContrastiveDivergence).           *)
(*                                                                         *)
(* Arrays are functions over 0..n-1, as in the source (row 0 is the first  *)
(* row, column 1 the second column).  Real-valued tensors are exact        *)
(* rationals: a record [num |-> integer tensor, den |-> positive integer]  *)
(* whose entries are num[...]/den.                                         *)
(***************************************************************************)
EXTENDS Integers, Sequences, FiniteSets, TLC

\* ------------------------------------------------------------- bounds
MaxRow == 3          \* alignments have 1..MaxRow rows in Spec
MaxCol == 2          \* alignments have 1..MaxCol columns
MaxMin == 2          \* the nr_seq_sample argument ranges over 1..MaxMin in Spec
MaxCalls == 2        \* evaluate calls made on one estimator
MaxKernel == 1       \* sampling-kernel outcomes 0..MaxKernel
MaxWeightPattern == 1 \* weight vectors 0..MaxWeightPattern
MaxX == 1            \* parameter vectors 0..MaxX
MaxRowShape == 11    \* alignments have 1..MaxRowShape rows in SpecShape
MaxMinShape == 1     \* with more than MaxRow rows, the nr_seq_sample argument is at most this

\* -------------------------------------------------- program constants
Q == 21              \* states per column: 20 amino acids and the gap
TenPercent == 10     \* int(self.nrow/10)
RefColumn == 1       \* column read by the sanity check
GradSlice == 21      \* g_single[:, :21]
WarnDen == 100000    \* the sanity check's threshold is 1/WarnDen = 1e-5

VARIABLES
    ncol, nrow,              \* self.ncol, self.nrow
    msa, weights, neff,      \* self.msa, self.weights, self.neff
    cfg_min,                 \* the nr_seq_sample argument of __init__
    estimator,               \* which frequency estimator PseudoCounts stands for
    freqs_single, freqs_pair,
    msa_counts_single, msa_counts_pair,
    Ni, Nij,
    nr_seq_sample,
    msa_persistent, weights_persistent,
    sample_seq_id,           \* self.sample_seq_id
    msa_sampled, msa_sampled_weights,
    calls,                   \* evaluate calls started so far
    last,                    \* record of the last evaluate call (inputs, locals, outcome)
    pc, loc,                 \* concurrent callers: position and per-call record (SpecConc)
    interleaved              \* a call started while another was running (SpecConc)

vars == << ncol, nrow, msa, weights, neff, cfg_min, estimator,
           freqs_single, freqs_pair, msa_counts_single, msa_counts_pair,
           Ni, Nij, nr_seq_sample, msa_persistent, weights_persistent,
           sample_seq_id, msa_sampled, msa_sampled_weights, calls, last, pc, loc,
           interleaved >>

consts == << ncol, nrow, weights, neff, cfg_min, estimator,
             freqs_single, freqs_pair, msa_counts_single, msa_counts_pair,
             Ni, Nij, nr_seq_sample, weights_persistent >>

\* ------------------------------------------------------------ helpers
Max2(a, b) == IF a >= b THEN a ELSE b

Abs(a) == IF a >= 0 THEN a ELSE -a

\* np.ceil(a / float(b)) for a >= 0, b > 0
Ceil(a, b) == (a + b - 1) \div b

\* number of rows of an array
Rows(a) == Cardinality(DOMAIN a)

RECURSIVE SumTo(_, _)
\* f[0] + ... + f[n-1]
SumTo(f, n) == IF n = 0 THEN 0 ELSE f[n - 1] + SumTo(f, n - 1)

\* a[ids]: numpy fancy indexing, a fresh array holding row a[ids[p]] at position p
FancyIndex(a, ids) == [p \in DOMAIN ids |-> a[ids[p]]]

\* a[ids] = batch: numpy fancy assignment; of several positions naming one row
\* the last one wins
Scatter(a, ids, batch) ==
    [r \in DOMAIN a |->
        IF \E p \in DOMAIN ids : ids[p] = r
        THEN batch[CHOOSE p \in DOMAIN ids :
                      /\ ids[p] = r
                      /\ \A p2 \in DOMAIN ids : ids[p2] = r => p2 <= p]
        ELSE a[r]]

\* --------------------------------------------------- parameter codec
\* self.nsingle, self.npair, self.nvar
nsingle(L) == L * Q

npair(L) == L * L * Q * Q

nvar(L) == nsingle(L) + npair(L)

\* width of a single-site tensor (states per column), 0 for a tensor without columns
Width(t) == IF DOMAIN t = {} THEN 0 ELSE Rows(t[0])

\* t[:, :n]
SliceCols(t, n) ==
    [i \in DOMAIN t |-> [a \in {c \in DOMAIN t[i] : c < n} |-> t[i][a]]]

\* ccmpred.parameter_handling.structured_to_linear(single, pair, nogapstate=False,
\* padding=False): the single-site entries, then the pair entries, nothing dropped
\* and nothing added.  single and pair are rational tensors.
StructuredToLinear(single, pair) ==
    LET L == Rows(single.num)
        W == Width(single.num)
        ns == L * W
    IN  [num |-> [k \in 0..(ns + npair(L) - 1) |->
                    IF k < ns
                    THEN single.num[k \div W][k % W] * pair.den
                    ELSE LET m == k - ns
                         IN  pair.num[m \div (L * Q * Q)][(m \div (Q * Q)) % L]
                                     [(m \div Q) % Q][m % Q] * single.den],
         den |-> single.den * pair.den,
         nsingle |-> ns]

\* ccmpred.parameter_handling.linear_to_structured(x, ncol, nogapstate=False,
\* add_gap_state=False, padding=False)
LinearToStructured(x, L) ==
    [single |-> [num |-> [i \in 0..(L - 1) |-> [a \in 0..(Q - 1) |-> x[i * Q + a]]],
                 den |-> 1],
     pair   |-> [num |-> [i \in 0..(L - 1) |-> [j \in 0..(L - 1) |->
                            [a \in 0..(Q - 1) |-> [b \in 0..(Q - 1) |->
                                x[nsingle(L) + ((i * L + j) * Q + a) * Q + b]]]]],
                 den |-> 1]]

\* the regularization callable: an L2 penalty, whose gradient is the parameters
Regularization(x_single, x_pair) ==
    [value |-> 0, g_single |-> x_single, g_pair |-> x_pair]

\* ------------------------------------------------------------- inputs
\* the alignment with N rows and L columns handed to __init__: codes in 0..Q-1,
\* rows pairwise distinct, row 0 all gaps
AlignmentOf(N, L) ==
    [r \in 0..(N - 1) |-> [j \in 0..(L - 1) |-> (Q - 1 + r * (j + 1)) % Q]]

\* the weight vector handed to __init__: all ones (wt = 0) or alternating
WeightsOf(N, wt) == [r \in 0..(N - 1) |-> 1 + ((r * wt) % 2)]

\* the parameter vector handed to evaluate
ParamsOf(xv, L) == [k \in 0..(nvar(L) - 1) |-> (xv * (k + 1)) % 3]

\* ccmpred.sampling.gibbs_sample_sequences(x, batch, gibbs_steps): a batch of the
\* same shape; outcome k = 0 leaves the batch as it is, k > 0 resamples every
\* position
Kernel(k, batch) ==
    IF k = 0 THEN batch
    ELSE [p \in DOMAIN batch |->
            [j \in DOMAIN batch[p] |-> (batch[p][j] + k * (p + 1) + j) % Q]]

\* ------------------------------------------------ frequency estimator
Estimators == {"empirical", "stub", "gapless"}

\* weighted single-site frequencies of a batch: num[i][a] over the total weight
EmpiricalSingle(batch, bw, L) ==
    LET n == Rows(batch)
    IN  [num |-> [i \in 0..(L - 1) |-> [a \in 0..(Q - 1) |->
                    SumTo([p \in 0..(n - 1) |->
                             IF batch[p][i] = a THEN bw[p] ELSE 0], n)]],
         den |-> SumTo(bw, n)]

\* weighted pair frequencies of a batch: num[i][j][a][b] over the total weight
EmpiricalPair(batch, bw, L) ==
    LET n == Rows(batch)
    IN  [num |-> [i \in 0..(L - 1) |-> [j \in 0..(L - 1) |->
                    [a \in 0..(Q - 1) |-> [b \in 0..(Q - 1) |->
                        SumTo([p \in 0..(n - 1) |->
                                 IF batch[p][i] = a /\ batch[p][j] = b
                                 THEN bw[p] ELSE 0], n)]]]],
         den |-> SumTo(bw, n)]

\* the same with the gap observations removed and the rest not renormalised
GaplessSingle(f) ==
    [num |-> [i \in DOMAIN f.num |-> [a \in 0..(Q - 1) |->
                IF a = Q - 1 THEN 0 ELSE f.num[i][a]]],
     den |-> f.den]

GaplessPair(f) ==
    [num |-> [i \in DOMAIN f.num |-> [j \in DOMAIN f.num[i] |->
                [a \in 0..(Q - 1) |-> [b \in 0..(Q - 1) |->
                    IF a = Q - 1 \/ b = Q - 1 THEN 0 ELSE f.num[i][j][a][b]]]]],
     den |-> f.den]

\* PseudoCounts(batch, bw).calculate_frequencies(...).freqs[0] for the estimator
\* est; obs is the single-site tensor the observed statistics were built from
EstimateSingle(est, batch, bw, L, obs) ==
    CASE est = "empirical" -> EmpiricalSingle(batch, bw, L)
      [] est = "stub"      -> obs
      [] est = "gapless"   -> GaplessSingle(EmpiricalSingle(batch, bw, L))

\* PseudoCounts(batch, bw).calculate_frequencies(...).freqs[1]
EstimatePair(est, batch, bw, L, obs) ==
    CASE est = "empirical" -> EmpiricalPair(batch, bw, L)
      [] est = "stub"      -> obs
      [] est = "gapless"   -> GaplessPair(EmpiricalPair(batch, bw, L))

\* ------------------------------------------------- rational tensors
\* freqs * c
ScaleSingle(f, c) ==
    [num |-> [i \in DOMAIN f.num |-> [a \in DOMAIN f.num[i] |-> f.num[i][a] * c]],
     den |-> f.den]

ScalePair(f, c) ==
    [num |-> [i \in DOMAIN f.num |-> [j \in DOMAIN f.num[i] |->
                [a \in DOMAIN f.num[i][j] |-> [b \in DOMAIN f.num[i][j][a] |->
                    f.num[i][j][a][b] * c]]]],
     den |-> f.den]

\* counts.sum(1)
SumStates(c) ==
    [num |-> [i \in DOMAIN c.num |-> SumTo(c.num[i], Rows(c.num[i]))],
     den |-> c.den]

\* counts.sum(3).sum(2)
SumStatePairs(c) ==
    [num |-> [i \in DOMAIN c.num |-> [j \in DOMAIN c.num[i] |->
                SumTo([a \in DOMAIN c.num[i][j] |->
                         SumTo(c.num[i][j][a], Rows(c.num[i][j][a]))],
                      Rows(c.num[i][j]))]],
     den |-> c.den]

\* freq * n[:, np.newaxis]
TimesColumn(f, n) ==
    [num |-> [i \in DOMAIN f.num |-> [a \in DOMAIN f.num[i] |->
                f.num[i][a] * n.num[i]]],
     den |-> f.den * n.den]

\* freq * n[:, :, np.newaxis, np.newaxis]
TimesColumnPair(f, n) ==
    [num |-> [i \in DOMAIN f.num |-> [j \in DOMAIN f.num[i] |->
                [a \in DOMAIN f.num[i][j] |-> [b \in DOMAIN f.num[i][j][a] |->
                    f.num[i][j][a][b] * n.num[i][j]]]]],
     den |-> f.den * n.den]

\* x - y, single-site tensors
SubSingle(x, y) ==
    [num |-> [i \in DOMAIN x.num |-> [a \in DOMAIN x.num[i] |->
                x.num[i][a] * y.den - y.num[i][a] * x.den]],
     den |-> x.den * y.den]

\* x - y, pair tensors
SubPair(x, y) ==
    [num |-> [i \in DOMAIN x.num |-> [j \in DOMAIN x.num[i] |->
                [a \in DOMAIN x.num[i][j] |-> [b \in DOMAIN x.num[i][j][a] |->
                    x.num[i][j][a][b] * y.den - y.num[i][j][a][b] * x.den]]]],
     den |-> x.den * y.den]

\* ------------------------------------------------------- construction
\* self.nr_seq_sample = np.max([int(self.nrow/10), nr_seq_sample])
NrSeqSample(n, m) == Max2(n \div TenPercent, m)

\* mutant of SeqId: the number of replications is truncated, not rounded up
SeqIdTruncated(n, nr) == [k \in 0..(n * (nr \div n) - 1) |-> k % n]

\* seq_id = list(range(self.nrow)) * int(np.ceil(self.nr_seq_sample / float(self.nrow)))
SeqId(n, nr) == [k \in 0..(n * Ceil(nr, n) - 1) |-> k % n]

\* self.Ni = self.msa_counts_single.sum(1)
NiOf(counts_single) == SumStates(counts_single)

\* self.Nij = self.msa_counts_pair.sum(3).sum(2)
NijOf(counts_pair) == SumStatePairs(counts_pair)

NoCall ==
    [outcome |-> "none", persistent |-> FALSE, kernel |-> 0, xv |-> 0,
     ids |-> <<>>, batch |-> <<>>, pool_before |-> <<>>, sampled |-> <<>>,
     bw |-> <<>>, warned |-> FALSE]

Callers == {1, 2}

\* the record kept for a concurrent call that has not started
NoLocals ==
    [ids |-> <<>>, kernel |-> 0, sampled |-> <<>>, written_ids |-> <<>>,
     written |-> <<>>, outcome |-> "none"]

\* ContrastiveDivergence(msa = AlignmentOf(N, L), weights = WeightsOf(N, wt),
\*                       pseudocounts, nr_seq_sample = m)
Construct(N, L, m, wt, est) ==
    LET a  == AlignmentOf(N, L)
        w  == WeightsOf(N, wt)
        ne == SumTo(w, N)
        fs == EmpiricalSingle(a, w, L)
        fp == EmpiricalPair(a, w, L)
        cs == ScaleSingle(fs, ne)
        cp == ScalePair(fp, ne)
        nr == NrSeqSample(N, m)
        sid == SeqId(N, nr)
    IN  /\ msa = a
        /\ nrow = N
        /\ ncol = L
        /\ weights = w
        /\ neff = ne
        /\ cfg_min = m
        /\ estimator = est
        /\ freqs_single = fs
        /\ freqs_pair = fp
        /\ msa_counts_single = cs
        /\ msa_counts_pair = cp
        /\ Ni = NiOf(cs)
        /\ Nij = NijOf(cp)
        /\ nr_seq_sample = nr
        /\ msa_persistent = FancyIndex(a, sid)
        /\ weights_persistent = FancyIndex(w, sid)
        /\ sample_seq_id = <<>>
        /\ msa_sampled = <<>>
        /\ msa_sampled_weights = <<>>
        /\ calls = 0
        /\ last = NoCall
        /\ pc = [c \in Callers |-> "idle"]
        /\ loc = [c \in Callers |-> NoLocals]
        /\ interleaved = FALSE

Init ==
    \E N \in 1..MaxRow, L \in 1..MaxCol, m \in 1..MaxMin,
       wt \in 0..MaxWeightPattern, est \in Estimators :
        Construct(N, L, m, wt, est)

\* larger alignments, where a tenth of the rows can exceed the configured
\* minimum; configurations that sample no sequence at all are left out
InitShape ==
    \E N \in 1..MaxRowShape, L \in 1..MaxCol, m \in 0..MaxMin,
       wt \in 0..MaxWeightPattern :
        /\ NrSeqSample(N, m) >= 1
        /\ N > MaxRow => m <= MaxMinShape
        /\ Construct(N, L, m, wt, "empirical")

\* the estimator two callers share
InitConc ==
    \E N \in 1..MaxRow, L \in 1..MaxCol, m \in 1..MaxMin,
       wt \in 0..MaxWeightPattern :
        Construct(N, L, m, wt, "empirical")

\* ---------------------------------------------------------------- draw
\* mutant of ChoiceWithoutReplacement: replace=True
ChoiceRepeating(a, size) == [0..(size - 1) -> 0..(a - 1)]

\* np.random.choice(a, size, replace=False): size pairwise distinct indices below a,
\* in any order; it raises ValueError when size > a
ChoiceWithoutReplacement(a, size) ==
    {ids \in [0..(size - 1) -> 0..(a - 1)] :
        \A p1, p2 \in 0..(size - 1) : ids[p1] = ids[p2] => p1 = p2}

\* np.random.choice(a, size, replace=True)
ChoiceWithReplacement(a, size) == [0..(size - 1) -> 0..(a - 1)]

\* the index sets init_sample_alignment can draw
DrawChoices(persistent) ==
    IF persistent
    THEN ChoiceWithoutReplacement(Rows(msa_persistent), nr_seq_sample)
    ELSE ChoiceWithReplacement(nrow, nr_seq_sample)

\* mutant of DrawSource: the ephemeral branch reads the pool too
DrawSourcePoolOnly(persistent) == msa_persistent

\* the array init_sample_alignment takes the batch rows from
DrawSource(persistent) == IF persistent THEN msa_persistent ELSE msa

\* the array init_sample_alignment takes the batch weights from
DrawWeights(persistent) == IF persistent THEN weights_persistent ELSE weights

\* mutant of WriteBack: the batch is written one position off its indices
WriteBackShifted(pool, ids, sampled) ==
    Scatter(pool, [p \in DOMAIN ids |-> ids[(p + 1) % Rows(ids)]], sampled)

\* self.msa_persistent[self.sample_seq_id] = self.msa_sampled
WriteBack(pool, ids, sampled) == Scatter(pool, ids, sampled)

\* mutant of MsaAfterWriteBack: the pool is a view of self.msa, so the write
\* lands in the original alignment as well
MsaSharedWithPool(a, ids, sampled) ==
    Scatter(a, [p \in DOMAIN ids |-> ids[p] % Rows(a)], sampled)

\* self.msa after that assignment: self.msa_persistent = self.msa[seq_id] indexes
\* with a list, which copies the rows, so the pool shares nothing with self.msa
MsaAfterWriteBack(a, ids, sampled) == a

\* ------------------------------------------------------------ gradient
\* mutant of ZeroDiagonal: the loop stops one column early
ZeroDiagonalShort(g_pair) ==
    [num |-> [i \in DOMAIN g_pair.num |-> [j \in DOMAIN g_pair.num[i] |->
                [a \in DOMAIN g_pair.num[i][j] |-> [b \in DOMAIN g_pair.num[i][j][a] |->
                    IF i = j /\ i < Rows(g_pair.num) - 1
                    THEN 0 ELSE g_pair.num[i][j][a][b]]]]],
     den |-> g_pair.den]

\* for i in range(self.ncol): g_pair[i, i, :, :] = 0
ZeroDiagonal(g_pair) ==
    [num |-> [i \in DOMAIN g_pair.num |-> [j \in DOMAIN g_pair.num[i] |->
                [a \in DOMAIN g_pair.num[i][j] |-> [b \in DOMAIN g_pair.num[i][j][a] |->
                    IF i = j THEN 0 ELSE g_pair.num[i][j][a][b]]]]],
     den |-> g_pair.den]

\* np.sum(t[RefColumn, :21])
RowSum(t, i) == LET row == SliceCols(t.num, GradSlice)[i]
                IN  SumTo(row, Rows(row))

\* np.abs(np.sum(sample_counts_single[1,:21]) - np.sum(self.msa_counts_single[1,:21])) > 1e-5
Drift(sample_counts_single, counts_single) ==
    LET d == RowSum(sample_counts_single, RefColumn) * counts_single.den
             - RowSum(counts_single, RefColumn) * sample_counts_single.den
    IN  Abs(d) * WarnDen > sample_counts_single.den * counts_single.den

\* the single-site tensor handed to structured_to_linear: g_single[:, :21]
Handed(g_single) == [num |-> SliceCols(g_single.num, GradSlice), den |-> g_single.den]

\* sample_counts_single = sampled_freq_single * self.Ni[:, np.newaxis]
SampleCountsSingle(sampled, bw) ==
    TimesColumn(EstimateSingle(estimator, sampled, bw, ncol, freqs_single), Ni)

\* sample_counts_pair = sampled_freq_pair * self.Nij[:, :, np.newaxis, np.newaxis]
SampleCountsPair(sampled, bw) ==
    TimesColumnPair(EstimatePair(estimator, sampled, bw, ncol, freqs_pair), Nij)

\* g_single = sample_counts_single - self.msa_counts_single
GSingle(sampled, bw) == SubSingle(SampleCountsSingle(sampled, bw), msa_counts_single)

\* g_pair = sample_counts_pair - self.msa_counts_pair, then its diagonal zeroed
GPair(sampled, bw) ==
    ZeroDiagonal(SubPair(SampleCountsPair(sampled, bw), msa_counts_pair))

\* the sanity check (lines 163-166) on the sampled batch and its weights: reading
\* column RefColumn of a tensor without that column raises IndexError, a
\* discrepancy prints a warning
SanityCheck(sampled, bw) ==
    LET sample_counts_single == SampleCountsSingle(sampled, bw)
    IN  IF RefColumn \notin DOMAIN sample_counts_single.num
        THEN [outcome |-> "IndexError", warned |-> FALSE]
        ELSE [outcome |-> "returned",
              warned  |-> Drift(sample_counts_single, msa_counts_single)]

\* the regularization gradient of the parameter vector x (lines 178-179)
RegGradient(x) ==
    LET xs == LinearToStructured(x, ncol)
    IN  Regularization(xs.single, xs.pair)

\* g = self.structured_to_linear(g_single[:, :21], g_pair)
G(sampled, bw) == StructuredToLinear(Handed(GSingle(sampled, bw)), GPair(sampled, bw))

\* g_reg = self.structured_to_linear(g_single_reg[:, :21], g_pair_reg)
GReg(x) == LET reg == RegGradient(x)
           IN  StructuredToLinear(Handed(reg.g_single), reg.g_pair)

\* ------------------------------------------------------------ evaluate
\* one whole call evaluate(x, persistent), serialised.  The triple it returns is
\* Returned below: it is a value of the call, not a field of the estimator.
Evaluate(persistent, ids, k, xv) ==
    /\ calls < MaxCalls
    /\ ids \in DrawChoices(persistent)
    /\ LET batch   == FancyIndex(DrawSource(persistent), ids)
           bw      == FancyIndex(DrawWeights(persistent), ids)
           sampled == Kernel(k, batch)
       IN  /\ sample_seq_id' = ids
           /\ msa_sampled' = sampled
           /\ msa_sampled_weights' = bw
           /\ msa_persistent' = IF persistent
                                THEN WriteBack(msa_persistent, ids, sampled)
                                ELSE msa_persistent
           /\ msa' = IF persistent
                     THEN MsaAfterWriteBack(msa, ids, sampled)
                     ELSE msa
           /\ last' = [persistent |-> persistent, kernel |-> k, xv |-> xv,
                       ids |-> ids, batch |-> batch, pool_before |-> msa_persistent,
                       sampled |-> sampled, bw |-> bw]
                      @@ SanityCheck(sampled, bw)
    /\ calls' = calls + 1
    /\ UNCHANGED << consts, pc, loc, interleaved >>

\* what the last call returned: (-1, g, g_reg), and the tensors it handed to
\* structured_to_linear
ReturnedValue == -1

ReturnedG == G(last.sampled, last.bw)

ReturnedGReg == GReg(ParamsOf(last.xv, ncol))

ReturnedGSingle == Handed(GSingle(last.sampled, last.bw))

ReturnedGPair == GPair(last.sampled, last.bw)

ReturnedGSingleReg == Handed(RegGradient(ParamsOf(last.xv, ncol)).g_single)

Next ==
    \E persistent \in BOOLEAN, k \in 0..MaxKernel, xv \in 0..MaxX :
        \E ids \in DrawChoices(persistent) : Evaluate(persistent, ids, k, xv)

Spec == Init /\ [][Next]_vars

SpecShape == InitShape /\ [][Next]_vars

\* ------------------------------------------- two unserialised callers
\* Two threads call evaluate(x, persistent=True) on one estimator with no lock.
\* Each call is the steps draw (line 130), sample (line 133), write-back
\* (lines 135-136) and the rest (lines 138-185); every step reads and writes
\* the estimator's fields, which the callers share.
Other(c) == CHOOSE d \in Callers : d # c

Running(c) == pc[c] \in {"drawn", "sampled", "written"}

\* line 130: init_sample_alignment(True) stores the drawn indices in
\* self.sample_seq_id, and its result goes to self.msa_sampled and
\* self.msa_sampled_weights
ConcDraw(c, ids) ==
    /\ pc[c] = "idle"
    /\ ids \in DrawChoices(TRUE)
    /\ sample_seq_id' = ids
    /\ msa_sampled' = FancyIndex(DrawSource(TRUE), ids)
    /\ msa_sampled_weights' = FancyIndex(DrawWeights(TRUE), ids)
    /\ pc' = [pc EXCEPT ![c] = "drawn"]
    /\ loc' = [loc EXCEPT ![c] = [NoLocals EXCEPT !.ids = ids]]
    /\ calls' = calls + 1
    /\ interleaved' = (interleaved \/ Running(Other(c)))
    /\ UNCHANGED << consts, msa, msa_persistent, last >>

\* line 133: the kernel is handed self.msa_sampled and its result is stored there
ConcSample(c, k) ==
    /\ pc[c] = "drawn"
    /\ msa_sampled' = Kernel(k, msa_sampled)
    /\ pc' = [pc EXCEPT ![c] = "sampled"]
    /\ loc' = [loc EXCEPT ![c].kernel = k, ![c].sampled = Kernel(k, msa_sampled)]
    /\ UNCHANGED << consts, msa, msa_persistent, sample_seq_id,
                    msa_sampled_weights, calls, last, interleaved >>

\* line 136: self.msa_persistent[self.sample_seq_id] = self.msa_sampled
ConcWriteBack(c) ==
    /\ pc[c] = "sampled"
    /\ msa_persistent' = WriteBack(msa_persistent, sample_seq_id, msa_sampled)
    /\ msa' = MsaAfterWriteBack(msa, sample_seq_id, msa_sampled)
    /\ pc' = [pc EXCEPT ![c] = "written"]
    /\ loc' = [loc EXCEPT ![c].written_ids = sample_seq_id,
                          ![c].written = msa_sampled]
    /\ UNCHANGED << consts, sample_seq_id, msa_sampled, msa_sampled_weights,
                    calls, last, interleaved >>

\* lines 138-185: frequencies, counts, gradient and sanity check, computed from
\* self.msa_sampled and self.msa_sampled_weights
ConcFinish(c) ==
    /\ pc[c] = "written"
    /\ pc' = [pc EXCEPT ![c] = "done"]
    /\ loc' = [loc EXCEPT ![c].outcome =
                   SanityCheck(msa_sampled, msa_sampled_weights).outcome]
    /\ UNCHANGED << consts, msa, msa_persistent, sample_seq_id, msa_sampled,
                    msa_sampled_weights, calls, last, interleaved >>

NextConc ==
    \E c \in Callers :
        \/ \E ids \in DrawChoices(TRUE) : ConcDraw(c, ids)
        \/ \E k \in 0..MaxKernel : ConcSample(c, k)
        \/ ConcWriteBack(c)
        \/ ConcFinish(c)

SpecConc == InitConc /\ [][NextConc]_vars

\* ===================================================================
\* Properties
\* ===================================================================
Called == last.outcome # "none"

\* the position of pool row r in the index set ids
PosOf(ids, r) == CHOOSE p \in DOMAIN ids : ids[p] = r

\* the pool as __init__ builds it
InitialPool == FancyIndex(msa, SeqId(nrow, nr_seq_sample))

\* C1: after a persistent call, the pool rows at the indices the call drew hold,
\* position for position, the batch the sampling kernel returned in that call,
\* and every other pool row is as it was before the call.
C1_ChainContinuity ==
    (Called /\ last.persistent) =>
        /\ msa_sampled = last.sampled
        /\ last.sampled = Kernel(last.kernel, last.batch)
        /\ DOMAIN msa_persistent = DOMAIN last.pool_before
        /\ \A r \in DOMAIN msa_persistent :
              IF \E p \in DOMAIN last.ids : last.ids[p] = r
              THEN msa_persistent[r] = last.sampled[PosOf(last.ids, r)]
              ELSE msa_persistent[r] = last.pool_before[r]

\* C1 witness: the second of two persistent calls drew two rows, the kernel
\* changed them to two different rows, and a row it did not draw holds what the
\* first call wrote there.
C1_Witness ==
    /\ calls = 2
    /\ last.persistent
    /\ nr_seq_sample = 2
    /\ last.sampled[0] # last.sampled[1]
    /\ last.sampled # last.batch
    /\ \E r \in DOMAIN msa_persistent :
          /\ \A p \in DOMAIN last.ids : last.ids[p] # r
          /\ msa_persistent[r] # InitialPool[r]

\* C3: a persistent draw can always be made (the pool holds at least
\* nr_seq_sample rows) and yields nr_seq_sample pairwise distinct pool indices;
\* an ephemeral draw yields nr_seq_sample indices below nrow and reads the
\* original alignment; the batch weights sit at the same indices as the rows.
C3_DrawSemantics ==
    /\ nr_seq_sample <= Rows(msa_persistent)
    /\ ChoiceWithoutReplacement(Rows(msa_persistent), nr_seq_sample) # {}
    /\ Called =>
          /\ DOMAIN last.ids = 0..(nr_seq_sample - 1)
          /\ DOMAIN last.batch = DOMAIN last.ids
          /\ DOMAIN last.bw = DOMAIN last.ids
          /\ sample_seq_id = last.ids
          /\ IF last.persistent
             THEN /\ \A p \in DOMAIN last.ids :
                        /\ last.ids[p] \in 0..(Rows(last.pool_before) - 1)
                        /\ last.batch[p] = last.pool_before[last.ids[p]]
                        /\ last.bw[p] = weights_persistent[last.ids[p]]
                  /\ \A p1, p2 \in DOMAIN last.ids :
                        last.ids[p1] = last.ids[p2] => p1 = p2
             ELSE \A p \in DOMAIN last.ids :
                        /\ last.ids[p] \in 0..(nrow - 1)
                        /\ last.batch[p] = msa[last.ids[p]]
                        /\ last.bw[p] = weights[last.ids[p]]

\* C3 witness: an ephemeral draw that repeats an index whose pool row no longer
\* equals the original row.
C3_Witness ==
    /\ Called
    /\ ~last.persistent
    /\ nr_seq_sample = 2
    /\ last.ids[0] = last.ids[1]
    /\ msa_persistent[last.ids[0]] # msa[last.ids[0]]

\* C8: the original alignment, the weights, the observed counts and the
\* rescaling factors keep the values __init__ gave them.
C8_ConstantsFrozen ==
    /\ msa = AlignmentOf(nrow, ncol)
    /\ \E wt \in 0..MaxWeightPattern : weights = WeightsOf(nrow, wt)
    /\ neff = SumTo(weights, nrow)
    /\ msa_counts_single = ScaleSingle(EmpiricalSingle(msa, weights, ncol), neff)
    /\ msa_counts_pair = ScalePair(EmpiricalPair(msa, weights, ncol), neff)
    /\ Ni = NiOf(msa_counts_single)
    /\ Nij = NijOf(msa_counts_pair)

\* C8 witness: a persistent call has written sampled rows into the pool and the
\* call went through the self-pair zeroing to its return.
C8_Witness ==
    /\ Called
    /\ last.persistent
    /\ last.outcome = "returned"
    /\ msa_persistent # InitialPool

\* C9: a call with persistent=False leaves the pool and its weights as they
\* are, and the batch it samples from is rows of the original alignment at the
\* indices it drew itself, however many persistent calls came before; and the
\* call that follows an ephemeral call reads none of the fields that call wrote
\* (sample_seq_id, msa_sampled, msa_sampled_weights): it assigns each of them
\* from the alignment or the pool and its own draw.
C9_EphemeralCarriesNothing ==
    [][calls' = calls + 1 =>
          /\ ~last'.persistent =>
                /\ msa_persistent' = msa_persistent
                /\ weights_persistent' = weights_persistent
                /\ last'.batch = FancyIndex(msa, sample_seq_id')
                /\ last'.bw = FancyIndex(weights, sample_seq_id')
                /\ \A p \in DOMAIN last'.batch :
                      \E r \in DOMAIN msa :
                          last'.batch[p] = AlignmentOf(nrow, ncol)[r]
          /\ (Called /\ ~last.persistent) =>
                /\ last'.batch =
                      FancyIndex(IF last'.persistent THEN msa_persistent ELSE msa,
                                 sample_seq_id')
                /\ msa_sampled_weights' =
                      FancyIndex(IF last'.persistent THEN weights_persistent
                                 ELSE weights, sample_seq_id')
                /\ msa_sampled' = Kernel(last'.kernel, last'.batch)]_vars

\* C9 witness: an ephemeral call made after a persistent call that left a row
\* in the pool which is no row of the original alignment.
C9_Witness ==
    /\ calls = 2
    /\ ~last.persistent
    /\ \E r \in DOMAIN msa_persistent :
          \A r0 \in DOMAIN msa : msa_persistent[r] # msa[r0]

\* C2: nr_seq_sample is the larger of the configured minimum and a tenth of the
\* rows rounded down; the pool holds nrow * ceil(nr_seq_sample / nrow) rows,
\* which is at least nr_seq_sample; pool weight k is weights[k mod nrow], and as
\* built pool row k is original row k mod nrow; 4 rows with a minimum of 500
\* give 500 and a pool of 125 replications.  All of it in every reachable state.
C2_PoolShape ==
    LET tenth == CHOOSE f \in 0..nrow : 10 * f <= nrow /\ nrow < 10 * (f + 1)
        reps  == CHOOSE c \in 0..nr_seq_sample :
                    /\ c * nrow >= nr_seq_sample
                    /\ c = 0 \/ (c - 1) * nrow < nr_seq_sample
    IN  /\ nr_seq_sample = Max2(cfg_min, tenth)
        /\ DOMAIN msa_persistent = 0..(nrow * reps - 1)
        /\ Rows(msa_persistent) >= nr_seq_sample
        /\ DOMAIN weights_persistent = DOMAIN msa_persistent
        /\ \A k \in DOMAIN weights_persistent :
              weights_persistent[k] = weights[k % nrow]
        /\ calls = 0 =>
              \A k \in DOMAIN msa_persistent : msa_persistent[k] = msa[k % nrow]
        /\ NrSeqSample(4, 500) = 500
        /\ DOMAIN SeqId(4, NrSeqSample(4, 500)) = 0..499
        /\ Ceil(NrSeqSample(4, 500), 4) = 125

\* C2 witness: a tenth of the rows exceeds the configured minimum, and a
\* persistent call has already rewritten a pool row.
C2_Witness ==
    /\ nrow \div 10 > cfg_min
    /\ calls >= 1
    /\ last.persistent
    /\ msa_persistent # InitialPool

\* the replicated pool also occurs: more pool rows than original rows
C2_ReplicatedReached ==
    /\ Rows(msa_persistent) > nrow
    /\ calls >= 1

\* C4: the pair gradient evaluate hands to linearization is zero on every
\* self-pair block and equals sample_counts_pair - msa_counts_pair elsewhere.
C4_SelfPairZero ==
    last.outcome = "returned" =>
        LET gp == ReturnedGPair
            d  == SubPair(SampleCountsPair(last.sampled, last.bw), msa_counts_pair)
        IN  /\ gp.den = d.den
            /\ \A i, j \in 0..(ncol - 1) : \A a, b \in 0..(Q - 1) :
                  gp.num[i][j][a][b] = IF i = j THEN 0 ELSE d.num[i][j][a][b]

\* C4 witness: a returned gradient with a non-zero entry off the diagonal, whose
\* self-pair block of the last column was non-zero before the zeroing.
C4_Witness ==
    /\ last.outcome = "returned"
    /\ LET gp == ReturnedGPair
           d  == SubPair(SampleCountsPair(last.sampled, last.bw), msa_counts_pair)
       IN  /\ \E i, j \in 0..(ncol - 1) : \E a, b \in 0..(Q - 1) :
                 i # j /\ gp.num[i][j][a][b] # 0
           /\ \E a, b \in 0..(Q - 1) : d.num[ncol - 1][ncol - 1][a][b] # 0

\* C5: with the kernel returning its input and the estimator returning the
\* frequencies the observed statistics were built from, evaluate returns a raw
\* gradient whose every entry is zero.
C5_ZeroUnderStubs ==
    (Called /\ estimator = "stub" /\ last.kernel = 0) =>
        /\ last.outcome = "returned"
        /\ \A k \in DOMAIN ReturnedG.num : ReturnedG.num[k] = 0

\* the part of C5 the code does satisfy: whenever such a call returns, its raw
\* gradient is zero throughout
C5_ZeroWhenReturned ==
    (last.outcome = "returned" /\ estimator = "stub" /\ last.kernel = 0) =>
        LET g == ReturnedG
        IN  \A k \in DOMAIN g.num : g.num[k] = 0

\* C6: the single-site tensors handed to linearization carry Q - 1 = 20 states
\* per column, so the flat gradient carries ncol * 20 single-site entries, and
\* the pair block keeps all 21 states.
C6_GapStateDropped ==
    last.outcome = "returned" =>
        /\ Width(ReturnedGSingle.num) = Q - 1
        /\ Width(ReturnedGSingleReg.num) = Q - 1
        /\ ReturnedG.nsingle = ncol * (Q - 1)
        /\ \A i, j \in 0..(ncol - 1) : DOMAIN ReturnedGPair.num[i][j] = 0..(Q - 1)

\* C7: the sanity check never ends a call: every call returns its triple, and a
\* persistent call has its write-back in place.
C7_DiagnosticNeverFatal ==
    Called =>
        /\ last.outcome = "returned"
        /\ last.persistent =>
              \A p \in DOMAIN last.ids : msa_persistent[last.ids[p]] = last.sampled[p]

\* the warning branch of the sanity check is taken and the call still returns
C7_WarnedReached == last.outcome = "returned" /\ last.warned

\* the pool after the two calls run one after the other, c1 first, with the
\* indices each drew and the kernel outcome each got
SerialResult(c1, c2) ==
    LET p0 == InitialPool
        p1 == Scatter(p0, loc[c1].ids,
                      Kernel(loc[c1].kernel, FancyIndex(p0, loc[c1].ids)))
    IN  Scatter(p1, loc[c2].ids,
                Kernel(loc[c2].kernel, FancyIndex(p1, loc[c2].ids)))

Misdirected(c) ==
    /\ pc[c] \in {"written", "done"}
    /\ loc[c].written_ids # loc[c].ids

\* C10: a persistent call writes into rows other than the ones it drew only when
\* the other call started while it was running; when the two calls run one after
\* the other, each writes the rows it drew and the pool is the serial result.
C10_RaceNeedsInterleaving ==
    /\ \A c \in Callers : Misdirected(c) => interleaved
    /\ ((\A c \in Callers : pc[c] = "done") /\ ~interleaved) =>
          /\ \A c \in Callers : loc[c].written_ids = loc[c].ids
          /\ msa_persistent \in {SerialResult(1, 2), SerialResult(2, 1)}

\* C10 witness: both calls are over, one wrote its own sampled batch into rows
\* it did not draw, and the pool is the result of neither serial order.
C10_Witness ==
    /\ \A c \in Callers : pc[c] = "done"
    /\ \E c \in Callers :
          /\ Misdirected(c)
          /\ loc[c].written = loc[c].sampled
    /\ msa_persistent \notin {SerialResult(1, 2), SerialResult(2, 1)}

====
